---- MODULE Spec2Model ----
(***************************************************************************)
(* Model of App.py, the Finpay top-up monitoring dashboard: one Streamlit   *)
(* script that loads a ledger through a memoized fetch, normalizes it,      *)
(* narrows it with four cascading multiselect filters and a date range,     *)
(* computes a running balance over the filtered rows and a per-cluster      *)
(* summary over all rows, and hosts an insert form and a delete form.       *)
(*                                                                          *)
(* A nullable value (None/NaN/NaT) is a sequence of length 0 or 1: <<>> is  *)
(* the missing value and <<v>> the value v.  Timestamps are integer ticks;  *)
(* a frame derived from df is the sequence of df's index labels it keeps.   *)
(***************************************************************************)
EXTENDS Integers, Sequences, FiniteSets, TLC

VARIABLES remote, cache, fetches, df, widgets, view, lastOp

vars == <<remote, cache, fetches, df, widgets, view, lastOp>>

-----------------------------------------------------------------------------
(* Bounds of the model *)

\* longest ledger held by the remote table
MaxRows == 2

\* most executions of the fetch counted between two invalidations
MaxFetches == 2

-----------------------------------------------------------------------------
(* Nullable values and sequence helpers *)

None == <<>>

Some(v) == <<v>>

IsNA(x) == x = <<>>

Val(x) == x[1]

Range(s) == {s[i] : i \in 1..Len(s)}

\* the sequences over S of length at most n
SeqUpTo(S, n) == UNION {[1..k -> S] : k \in 0..n}

\* sum of the non-missing entries of a sequence of nullable numbers
RECURSIVE SumSkipNA(_)
SumSkipNA(s) ==
  IF s = <<>> THEN 0
  ELSE (IF IsNA(Head(s)) THEN 0 ELSE Val(Head(s))) + SumSkipNA(Tail(s))

\* a nullable number plus a number: NaN stays NaN
AddNA(n, x) == IF IsNA(x) THEN None ELSE Some(n + Val(x))

-----------------------------------------------------------------------------
(* Program constants *)

initial_balances_by_cluster ==
  ("411311" :> 33725650) @@ ("421315" :> 50622293) @@ ("421318" :> 22681438) @@
  ("421320" :> 52467000) @@ ("421307" :> 64689000) @@ ("421306" :> 48291500)

\* initial_balances_by_cluster.get(cid, 0)
BalanceGet(cid) ==
  IF cid \in DOMAIN initial_balances_by_cluster
  THEN initial_balances_by_cluster[cid] ELSE 0

\* ticks of one calendar day: .dt.date drops the time of day
TicksPerDay == 2

DateOf(ts) == ts \div TicksPerDay

-----------------------------------------------------------------------------
(* f"{x:,.0f}": sign, digits grouped by thousands; "nan" for a missing value *)

Pad3(k) ==
  IF k < 10 THEN "00" \o ToString(k)
  ELSE IF k < 100 THEN "0" \o ToString(k) ELSE ToString(k)

RECURSIVE GroupDigits(_)
GroupDigits(n) ==
  IF n < 1000 THEN ToString(n)
  ELSE GroupDigits(n \div 1000) \o "," \o Pad3(n % 1000)

FormatThousands(x) ==
  IF IsNA(x) THEN "nan"
  ELSE IF Val(x) < 0 THEN "-" \o GroupDigits(0 - Val(x)) ELSE GroupDigits(Val(x))

-----------------------------------------------------------------------------
(* Normalizer: lines 68-78 *)

Normalize(raw) ==
  [TransactionDate |-> raw.TransactionDate,
   Amount          |-> raw.Amount,
   Nama            |-> IF IsNA(raw.Nama) THEN "tanpa_nama" ELSE Val(raw.Nama),
   TransactionType |-> IF IsNA(raw.TransactionType) THEN "tanpa_tipe"
                       ELSE Val(raw.TransactionType),
   ClusterID       |-> IF IsNA(raw.ClusterID) THEN "tanpa_cluster"
                       ELSE Val(raw.ClusterID),
   Sender          |-> IF IsNA(raw.Sender) THEN 0 ELSE Val(raw.Sender)]

Preprocess(rawdf) == [i \in 1..Len(rawdf) |-> Normalize(rawdf[i])]

-----------------------------------------------------------------------------
(* Frames: df is a sequence of normalized rows, a derived frame the sequence *)
(* of df's index labels it keeps                                            *)

Index(d) == [i \in 1..Len(d) |-> i]

\* frame[frame[field].isin(selected)]
isin(d, frame, field, selected) ==
  SelectSeq(frame, LAMBDA i : d[i][field] \in selected)

\* sorted(frame[field].unique()): the option domain of one filter stage
unique(d, frame, field) == {d[i][field] : i \in Range(frame)}

\* frame[field] as a sequence of values
Column(d, frame, field) == [k \in 1..Len(frame) |-> d[frame[k]][field]]

\* frame[frame['TransactionType'] == type]['Amount'].sum()
AmountSum(d, frame, type) ==
  SumSkipNA(Column(d, isin(d, frame, "TransactionType", {type}), "Amount"))

\* the non-missing timestamps of a frame
Stamps(d, frame) ==
  {Val(d[i].TransactionDate) : i \in {j \in Range(frame) : ~IsNA(d[j].TransactionDate)}}

SetMin(S) == CHOOSE x \in S : \A y \in S : x <= y

SetMax(S) == CHOOSE x \in S : \A y \in S : x >= y

-----------------------------------------------------------------------------
(* Widgets.  A Streamlit widget keeps the user's value across reruns while   *)
(* the arguments it is created with are the same; created with other        *)
(* options it is a new widget and returns its default.  touch is the one    *)
(* widget the user changed before this run, and the value given to it.      *)

Timestamps == {1, 2, 3}

\* date.today(): the day after the last ledger day
Today == 1 + DateOf(SetMax(Timestamps))

Untouched == [stage |-> "none"]

\* st.sidebar.multiselect(label, options=options, default=options)
multiselect(stage, options, prevOptions, prevValue, touch) ==
  IF options # prevOptions THEN options
  ELSE IF touch.stage = stage THEN touch.value
  ELSE prevValue

\* st.sidebar.date_input(label, [min_date, max_date], min_value=, max_value=)
date_input(lo, hi, prevLo, prevHi, prevValue, touch) ==
  IF <<lo, hi>> # <<prevLo, prevHi>> THEN <<lo, hi>>
  ELSE IF touch.stage = "date" THEN touch.value
  ELSE prevValue

\* no widget has been created yet
FreshWidgets ==
  [unique_transaction_types |-> {"<none>"}, selected_transaction_types |-> {},
   unique_cluster_ids |-> {"<none>"}, selected_cluster_ids |-> {},
   unique_senders |-> {0 - 1}, selected_senders |-> {},
   unique_names |-> {"<none>"}, selected_names |-> {},
   min_date |-> 0 - 1, max_date |-> 0 - 1, date_range |-> <<>>,
   filtered_df |-> <<>>]

-----------------------------------------------------------------------------
(* Cascading filters and the date widget: lines 168-214 *)

Stage1(d, w, touch) ==
  LET opts == unique(d, Index(d), "TransactionType")
      sel  == multiselect("types", opts, w.unique_transaction_types,
                          w.selected_transaction_types, touch)
  IN [options |-> opts, selected |-> sel,
      frame |-> isin(d, Index(d), "TransactionType", sel)]

\* the cluster options taken from the whole data, not from the frame the
\* type stage left
Stage2Unfiltered(d, w, touch, frame1) ==
  LET opts == unique(d, Index(d), "ClusterID")
      sel  == multiselect("clusters", opts, w.unique_cluster_ids,
                          w.selected_cluster_ids, touch)
  IN [options |-> opts, selected |-> sel,
      frame |-> isin(d, frame1, "ClusterID", sel)]

Stage2(d, w, touch, frame1) ==
  LET opts == unique(d, frame1, "ClusterID")
      sel  == multiselect("clusters", opts, w.unique_cluster_ids,
                          w.selected_cluster_ids, touch)
  IN [options |-> opts, selected |-> sel,
      frame |-> isin(d, frame1, "ClusterID", sel)]

Stage3(d, w, touch, frame2) ==
  LET opts == unique(d, frame2, "Sender")
      sel  == multiselect("senders", opts, w.unique_senders, w.selected_senders, touch)
  IN [options |-> opts, selected |-> sel,
      frame |-> isin(d, frame2, "Sender", sel)]

Stage4(d, w, touch, frame3) ==
  LET opts == unique(d, frame3, "Nama")
      sel  == multiselect("names", opts, w.unique_names, w.selected_names, touch)
  IN [options |-> opts, selected |-> sel,
      frame |-> isin(d, frame3, "Nama", sel)]

\* min_date / max_date: lines 207-208
MinDate(d, frame) ==
  IF Stamps(d, frame) = {} THEN Today ELSE DateOf(SetMin(Stamps(d, frame)))

MaxDate(d, frame) ==
  IF Stamps(d, frame) = {} THEN Today ELSE DateOf(SetMax(Stamps(d, frame)))

\* the widget state after the sidebar filters of one run
CascadingFilters(d, w, touch) ==
  LET s1 == Stage1(d, w, touch)
      s2 == Stage2(d, w, touch, s1.frame)
      s3 == Stage3(d, w, touch, s2.frame)
      s4 == Stage4(d, w, touch, s3.frame)
      lo == MinDate(d, s4.frame)
      hi == MaxDate(d, s4.frame)
  IN [unique_transaction_types |-> s1.options,
      selected_transaction_types |-> s1.selected,
      unique_cluster_ids |-> s2.options, selected_cluster_ids |-> s2.selected,
      unique_senders |-> s3.options, selected_senders |-> s3.selected,
      unique_names |-> s4.options, selected_names |-> s4.selected,
      min_date |-> lo, max_date |-> hi,
      date_range |-> date_input(lo, hi, w.min_date, w.max_date, w.date_range, touch),
      filtered_df |-> s4.frame]

-----------------------------------------------------------------------------
(* Scorecards and the running balance: lines 283-297 and 365-409 *)

\* the opening balance taken over the whole registry, whatever is selected
SaldoAwalWholeRegistry(selected_cluster_ids) ==
  LET RECURSIVE Sum(_)
      Sum(S) == IF S = {} THEN 0
                ELSE LET c == CHOOSE x \in S : TRUE
                     IN initial_balances_by_cluster[c] + Sum(S \ {c})
  IN Sum(DOMAIN initial_balances_by_cluster)

\* saldo_awal: line 287
SaldoAwal(selected_cluster_ids) ==
  LET RECURSIVE Sum(_)
      Sum(S) == IF S = {} THEN 0
                ELSE LET c == CHOOSE x \in S : TRUE
                     IN BalanceGet(c) + Sum(S \ {c})
  IN Sum(selected_cluster_ids)

\* the date filter of lines 290-291: closed interval on the date component;
\* a comparison with NaT is False
DateFilter(d, frame, start_date, end_date) ==
  SelectSeq(frame, LAMBDA i :
    /\ ~IsNA(d[i].TransactionDate)
    /\ DateOf(Val(d[i].TransactionDate)) >= start_date
    /\ DateOf(Val(d[i].TransactionDate)) <= end_date)

\* sort_values('TransactionDate', ascending=True) with the default quicksort,
\* which is not stable: every ascending arrangement of the frame is possible
sort_values(d, frame) ==
  {p \in [1..Len(frame) -> Range(frame)] :
     /\ \A i, j \in 1..Len(frame) : i # j => p[i] # p[j]
     /\ \A i \in 1..Len(frame) - 1 :
          Val(d[p[i]].TransactionDate) <= Val(d[p[i + 1]].TransactionDate)}

\* the NetChange lambda of lines 372-376
NetChange(row) ==
  IF row.TransactionType = "Kredit" THEN row.Amount
  ELSE IF row.TransactionType = "Debit"
       THEN (IF IsNA(row.Amount) THEN None ELSE Some(0 - Val(row.Amount)))
       ELSE Some(0)

\* Series.cumsum(): a missing entry is skipped by the running total and stays
\* missing in the result
RECURSIVE cumsum(_, _)
cumsum(s, acc) ==
  IF s = <<>> THEN <<>>
  ELSE IF IsNA(Head(s)) THEN <<None>> \o cumsum(Tail(s), acc)
       ELSE <<Some(acc + Val(Head(s)))>> \o cumsum(Tail(s), acc + Val(Head(s)))

\* line 379: saldo_awal + NetChange.cumsum()
RunningSaldo(saldo_awal, net) ==
  LET c == cumsum(net, 0) IN [k \in 1..Len(c) |-> AddNA(saldo_awal, c[k])]

\* the block under "if len(date_range) == 2", down to the final balance, with
\* the trail in the order the sort produced
BalanceView(d, w, sorted) ==
  LET saldo_awal == SaldoAwal(w.selected_cluster_ids)
      final == DateFilter(d, w.filtered_df, w.date_range[1], w.date_range[2])
      total_debit == AmountSum(d, final, "Debit")
      total_kredit == AmountSum(d, final, "Kredit")
      final_balance == saldo_awal + (total_kredit - total_debit)
      net == [k \in 1..Len(sorted) |-> NetChange(d[sorted[k]])]
      running == RunningSaldo(saldo_awal, net)
  IN [saldo_awal |-> saldo_awal,
      final_filtered_df |-> sorted,
      total_debit_filtered |-> total_debit,
      total_kredit_filtered |-> total_kredit,
      final_balance_value |-> final_balance,
      card_running_balance |-> "Rp " \o FormatThousands(Some(final_balance)),
      NetChange |-> net,
      RunningSaldo |-> running,
      RunningSaldoText |-> [k \in 1..Len(running) |-> FormatThousands(running[k])],
      final_balance_display |->
        IF sorted = <<>> THEN None
        ELSE Some(FormatThousands(running[Len(running)]))]

-----------------------------------------------------------------------------
(* Cluster summary: lines 422-469 *)

ClusterFrame(d, cid) == isin(d, Index(d), "ClusterID", {cid})

\* one row of summary_df before the reformatting
SummaryRow(d, cid) ==
  LET frame == ClusterFrame(d, cid)
      kredit == AmountSum(d, frame, "Kredit")
      debit == AmountSum(d, frame, "Debit")
      initial == BalanceGet(cid)
      stamps == Stamps(d, frame)
  IN [ClusterID |-> cid,
      DataUpdate |-> IF stamps = {} THEN None ELSE Some(SetMax(stamps)),
      TotalKredit |-> kredit,
      TotalDebit |-> debit,
      InitialBalance |-> initial,
      RunningBalance |-> initial + kredit - debit]

RECURSIVE SumField(_, _)
SumField(rows, field) ==
  IF rows = {} THEN 0
  ELSE LET r == CHOOSE x \in rows : TRUE
       IN r[field] + SumField(rows \ {r}, field)

\* the 'Total' row of lines 449-458
SummaryTotal(rows) ==
  [ClusterID |-> "Total",
   DataUpdate |-> None,
   TotalKredit |-> SumField(rows, "TotalKredit"),
   TotalDebit |-> SumField(rows, "TotalDebit"),
   InitialBalance |-> SumField(rows, "InitialBalance"),
   RunningBalance |-> SumField(rows, "RunningBalance")]

\* lines 461-469: the columns as displayed
SummaryText(r) ==
  [ClusterID |-> r.ClusterID,
   DataUpdate |-> IF IsNA(r.DataUpdate) THEN "---" ELSE ToString(Val(r.DataUpdate)),
   TotalKredit |-> FormatThousands(Some(r.TotalKredit)),
   TotalDebit |-> FormatThousands(Some(r.TotalDebit)),
   InitialBalance |-> FormatThousands(Some(r.InitialBalance)),
   RunningBalance |-> FormatThousands(Some(r.RunningBalance))]

\* the summary grouped over the filtered frame instead of df
SummarySourceFiltered(d, w) == [k \in 1..Len(w.filtered_df) |-> d[w.filtered_df[k]]]

\* the data the summary is grouped over: df itself (line 423)
SummarySource(d, w) == d

\* summary_df: one row per cluster of the data, and the total row
summary_df(d, w) ==
  LET src == SummarySource(d, w)
      rows == {SummaryRow(src, cid) : cid \in unique(src, Index(src), "ClusterID")}
  IN {SummaryText(r) : r \in rows \cup {SummaryTotal(rows)}}

-----------------------------------------------------------------------------
(* One run of the script over a loaded snapshot: lines 56-488 without the    *)
(* two form handlers                                                        *)

\* line 82: latest_date.strftime raises when every timestamp is NaT
NoTimestamp(d) == \A i \in 1..Len(d) : IsNA(d[i].TransactionDate)

\* line 229: format_func calls strftime on every row's timestamp
SomeNaT(d) == \E i \in 1..Len(d) : IsNA(d[i].TransactionDate)

\* the sidebar widgets were created in the run that ended in this status
SidebarShown(status) == status \in {"crashed_delete_options", "no_date_range", "rendered"}

\* the delete form was created in the run that ended in this status
DeleteFormShown(status) == status \in {"no_date_range", "rendered"}

\* every way the run can end: the widget state it leaves and what it shows
RunScript(snapshot, w, touch) ==
  LET d == Preprocess(snapshot) IN
  IF d = <<>>
  THEN {[df |-> d, widgets |-> FreshWidgets, view |-> [status |-> "stopped_no_data"]]}
  ELSE IF NoTimestamp(d)
  THEN {[df |-> d, widgets |-> FreshWidgets, view |-> [status |-> "crashed_data_update"]]}
  ELSE LET cf == CascadingFilters(d, w, touch) IN
  IF SomeNaT(d)
  THEN {[df |-> d, widgets |-> cf, view |-> [status |-> "crashed_delete_options"]]}
  ELSE IF Len(cf.date_range) # 2
  THEN {[df |-> d, widgets |-> cf, view |-> [status |-> "no_date_range"]]}
  ELSE LET summary == summary_df(d, cf) IN
       {[df |-> d, widgets |-> cf,
         view |-> [status |-> "rendered",
                   balance |-> BalanceView(d, cf, sorted),
                   summary_df |-> summary]] :
          sorted \in sort_values(d, DateFilter(d, cf.filtered_df,
                                               cf.date_range[1], cf.date_range[2]))}

-----------------------------------------------------------------------------
(* The memoized fetch: lines 31-40 and 56 *)

\* client.query(query).to_dataframe(): the table as it is now, or an exception,
\* which load_data turns into an empty frame
FetchResults(table) == {table, <<>>}

\* load_data without the memo: every run fetches
load_data_uncached(memo, table) ==
  {[result |-> q, memo |-> Some(q), fetched |-> 1] : q \in FetchResults(table)}

\* load_data under st.cache_data: the memoized value when there is one,
\* otherwise one fetch whose return value is memoized
load_data(memo, table) ==
  IF ~IsNA(memo)
  THEN {[result |-> Val(memo), memo |-> memo, fetched |-> 0]}
  ELSE {[result |-> q, memo |-> Some(q), fetched |-> 1] : q \in FetchResults(table)}

Count(n, k) == IF n + k > MaxFetches THEN MaxFetches ELSE n + k

\* a full run from load_data on: the next values of cache, fetches, df, widgets
\* and view, with memo the cache as the run finds it
Rerun(memo, count, table, w, touch, op) ==
  \E l \in load_data(memo, table) :
    \E out \in RunScript(l.result, w, touch) :
      /\ cache' = l.memo
      /\ fetches' = Count(count, l.fetched)
      /\ df' = out.df
      /\ widgets' = out.widgets
      /\ view' = out.view
      /\ lastOp' = [op EXCEPT !.fetched = (l.fetched = 1)]

-----------------------------------------------------------------------------
(* Widget interactions: each reruns the script with the cache as it is *)

Op(kind, cleared) == [kind |-> kind, cleared |-> cleared, fetched |-> FALSE]

Touch(stage, value) ==
  /\ SidebarShown(view.status)
  /\ remote' = remote
  /\ Rerun(cache, fetches, remote, widgets, [stage |-> stage, value |-> value],
           Op("widget", FALSE))

\* what one click on a multiselect leaves selected: an option removed, an
\* option added, or everything cleared
Clicks(options, selected) ==
  ({selected \ {x} : x \in selected} \cup {selected \cup {x} : x \in options \ selected}
     \cup {{}}) \ {selected}

SetTransactionTypes ==
  \E S \in Clicks(widgets.unique_transaction_types, widgets.selected_transaction_types) :
    Touch("types", S)

SetClusterIds ==
  \E S \in Clicks(widgets.unique_cluster_ids, widgets.selected_cluster_ids) :
    Touch("clusters", S)

SetSenders ==
  \E S \in Clicks(widgets.unique_senders, widgets.selected_senders) :
    Touch("senders", S)

SetNames ==
  \E S \in Clicks(widgets.unique_names, widgets.selected_names) :
    Touch("names", S)

\* what one click on the date widget returns: a start date alone when a range
\* was shown, then the range from that start to an end not before it
DateClicks(lo, hi, value) ==
  IF Len(value) = 1
  THEN {<<value[1], b>> : b \in value[1]..hi}
  ELSE {<<a>> : a \in lo..hi}

SetDateRange ==
  \E v \in DateClicks(widgets.min_date, widgets.max_date, widgets.date_range) :
    Touch("date", v)

-----------------------------------------------------------------------------
(* Clear Cache button: lines 51-53 *)

ClearCache ==
  /\ remote' = remote
  /\ Rerun(None, 0, remote, widgets, Untouched, Op("clear_cache", TRUE))

-----------------------------------------------------------------------------
(* new_data_form: lines 119-164 *)

\* the rows the form can build: every field set, the type one of the two
\* options, the cluster one of the clusters of the data
FormRows(d) ==
  [TransactionDate : {Some(1)}, Amount : {Some(1)},
   TransactionType : {Some("Kredit"), Some("Debit")}, Nama : {Some("a")},
   ClusterID : {Some(c) : c \in unique(d, Index(d), "ClusterID")},
   Sender : {Some(1)}]

\* insert_rows_json returned no errors: the cache is cleared and the script
\* reruns (lines 159-162)
InsertOk(new_row) ==
  /\ remote' = Append(remote, new_row)
  /\ Rerun(None, 0, remote', widgets, Untouched, Op("insert_ok", TRUE))

\* insert_rows_json returned errors (nothing written) or raised (the row
\* written or not): lines 156-157 and 163-164 only report the error, and the
\* run goes on with the frame it loaded
InsertFailed(new_row, raised) ==
  /\ remote' \in (IF raised THEN {remote, Append(remote, new_row)} ELSE {remote})
  /\ Rerun(cache, fetches, remote', widgets, Untouched,
           Op(IF raised THEN "insert_raised" ELSE "insert_errors", FALSE))

SubmitInsert ==
  /\ SidebarShown(view.status)
  /\ Len(remote) < MaxRows
  /\ \E new_row \in FormRows(df) :
       \/ InsertOk(new_row)
       \/ InsertFailed(new_row, FALSE)
       \/ InsertFailed(new_row, TRUE)

-----------------------------------------------------------------------------
(* delete_form: lines 218-277 *)

\* the WHERE clause of lines 251-257: every field of the stored row equals the
\* value of the selected row; a NULL field equals nothing
WhereMatches(raw, row) ==
  /\ \A f \in DOMAIN raw : ~IsNA(raw[f])
  /\ Normalize(raw) = row

\* the table after one DELETE that ran
DeleteFrom(table, row) == SelectSeq(table, LAMBDA raw : ~WhereMatches(raw, row))

\* the loop without its try/except: the first query that raises ends it
RECURSIVE delete_loop_abort(_, _, _, _)
delete_loop_abort(d, rows, ok, st) ==
  IF rows = <<>> THEN st
  ELSE LET i == Head(rows)
           issued == [st EXCEPT !.attempts = Append(@, i)]
       IN IF ok[i]
          THEN delete_loop_abort(d, Tail(rows), ok,
                 [issued EXCEPT !.table = DeleteFrom(@, d[i]),
                                !.success = Append(@, i)])
          ELSE [issued EXCEPT !.failed = Append(@, i)]

\* the for loop of lines 242-269 over the selected index labels: ok[i] tells
\* whether the query for row i runs or raises; st carries the table, the two
\* lists of deletion_status and the rows a query was issued for
RECURSIVE delete_loop(_, _, _, _)
delete_loop(d, rows, ok, st) ==
  IF rows = <<>> THEN st
  ELSE LET i == Head(rows)
           issued == [st EXCEPT !.attempts = Append(@, i)]
       IN delete_loop(d, Tail(rows), ok,
            IF ok[i]
            THEN [issued EXCEPT !.table = DeleteFrom(@, d[i]),
                                !.success = Append(@, i)]
            ELSE [issued EXCEPT !.failed = Append(@, i)])

\* the selected labels in ascending order
RECURSIVE Ascending(_)
Ascending(S) ==
  IF S = {} THEN <<>> ELSE <<SetMin(S)>> \o Ascending(S \ {SetMin(S)})

\* lines 236-277 with a non-empty selection
DeleteSelected(rows, ok) ==
  LET st == delete_loop(df, Ascending(rows), ok,
                        [table |-> remote, success |-> <<>>, failed |-> <<>>,
                         attempts |-> <<>>])
  IN /\ remote' = st.table
     /\ Rerun(None, 0, remote', widgets, Untouched,
              [kind |-> "delete", cleared |-> TRUE, fetched |-> FALSE,
               selected |-> rows, success |-> st.success, failed |-> st.failed,
               attempts |-> st.attempts])

\* the button pressed with nothing selected: line 236 is false
DeleteNothing ==
  /\ remote' = remote
  /\ Rerun(cache, fetches, remote, widgets, Untouched, Op("delete_nothing", FALSE))

SubmitDelete ==
  /\ DeleteFormShown(view.status)
  /\ \/ DeleteNothing
     \/ \E rows \in SUBSET (1..Len(df)) \ {{}} :
          \E ok \in [rows -> BOOLEAN] : DeleteSelected(rows, ok)

-----------------------------------------------------------------------------
(* Specifications *)

\* the state after the first run of a session over a table
InitOver(tables) ==
  /\ remote \in tables
  /\ \E l \in load_data(None, remote) :
       \E out \in RunScript(l.result, FreshWidgets, Untouched) :
         /\ cache = l.memo
         /\ fetches = l.fetched
         /\ df = out.df
         /\ widgets = out.widgets
         /\ view = out.view
         /\ lastOp = [Op("start", FALSE) EXCEPT !.fetched = (l.fetched = 1)]

RawRows(stamps, amounts, types, clusters, senders, names) ==
  [TransactionDate : stamps, Amount : amounts, TransactionType : types,
   Nama : names, ClusterID : clusters, Sender : senders]

\* rows for the session protocol: with and without a timestamp, both types
ProtocolRows ==
  RawRows({Some(1), None}, {Some(1)}, {Some("Kredit"), Some("Debit")},
          {Some("411311")}, {Some(1)}, {Some("a")})

\* rows for the balance trail: three instants on two days, amounts valid and
\* missing, the two types and a missing type
BalanceRows ==
  RawRows({Some(t) : t \in Timestamps}, {Some(1), Some(2), None},
          {Some("Kredit"), Some("Debit"), None},
          {Some("411311")}, {Some(1)}, {Some("a")})

\* rows for the cascading filters: two types, a cluster of the registry and a
\* missing cluster, a sender and a missing sender
FilterRows ==
  RawRows({Some(1)}, {Some(1)}, {Some("Kredit"), Some("Debit")},
          {Some("411311"), None}, {Some(1), None}, {Some("a")})

Init == InitOver(SeqUpTo(ProtocolRows, MaxRows))

Next ==
  \/ ClearCache
  \/ SubmitInsert
  \/ SubmitDelete
  \/ SetTransactionTypes
  \/ SetClusterIds
  \/ SetSenders
  \/ SetNames
  \/ SetDateRange

Spec == Init /\ [][Next]_vars

NextView ==
  \/ SetTransactionTypes
  \/ SetClusterIds
  \/ SetSenders
  \/ SetNames
  \/ SetDateRange

InitBalance == InitOver(SeqUpTo(BalanceRows, MaxRows))

SpecBalance == InitBalance /\ [][NextView]_vars

InitFilter == InitOver(SeqUpTo(FilterRows, MaxRows))

SpecFilter == InitFilter /\ [][NextView]_vars

-----------------------------------------------------------------------------
(* Properties of the balance trail *)

Rendered == view.status = "rendered"

\* the trail of the view: the rows of the final filtered frame in sorted order
Trail == view.balance.final_filtered_df

\* the net change of a row as the specification defines it: +amount for
\* Kredit, -amount for Debit, 0 for any other type, a missing amount counting 0
SpecNetChange(row) ==
  IF IsNA(row.Amount) THEN 0
  ELSE IF row.TransactionType = "Kredit" THEN Val(row.Amount)
  ELSE IF row.TransactionType = "Debit" THEN 0 - Val(row.Amount)
  ELSE 0

\* the sum of the specification's net changes over the first k rows of a trail
SpecPrefix(d, trail, k) ==
  LET RECURSIVE Upto(_)
      Upto(j) == IF j = 0 THEN 0 ELSE Upto(j - 1) + SpecNetChange(d[trail[j]])
  IN Upto(k)

\* the same prefix sum when a missing amount makes the sum missing: missing
\* from the first Kredit or Debit row without an amount on
StrictPrefix(d, trail, k) ==
  IF \E j \in 1..k : /\ IsNA(d[trail[j]].Amount)
                     /\ d[trail[j]].TransactionType \in {"Kredit", "Debit"}
  THEN None
  ELSE Some(SpecPrefix(d, trail, k))

\* C1: for every non-empty filtered set, the running balance at row i of the
\* trail is the opening balance plus the sum of the net changes of rows 0..i
\* (+amount for Kredit, -amount for Debit, 0 otherwise), whether a missing
\* amount is read as adding nothing or as making the sum missing
C1_RunningBalanceIsPrefixSum ==
  Rendered =>
    \/ \A k \in 1..Len(Trail) :
         view.balance.RunningSaldo[k] =
           Some(view.balance.saldo_awal + SpecPrefix(df, Trail, k))
    \/ \A k \in 1..Len(Trail) :
         view.balance.RunningSaldo[k] =
           AddNA(view.balance.saldo_awal, StrictPrefix(df, Trail, k))

\* C2: with a complete date range, the final balance of the view (the
\* scorecard value) is the running balance of the last trail row, or the
\* opening balance when the filtered set is empty, and both are shown alike
C2_FinalBalanceIsLastRunningBalance ==
  Rendered =>
    IF Trail = <<>>
    THEN view.balance.final_balance_value = view.balance.saldo_awal
    ELSE /\ view.balance.RunningSaldo[Len(Trail)] =
              Some(view.balance.final_balance_value)
         /\ "Rp " \o Val(view.balance.final_balance_display) =
              view.balance.card_running_balance

\* the balance view of the current categorical selection over another date range
ViewOver(start_date, end_date) ==
  LET w == [widgets EXCEPT !.date_range = <<start_date, end_date>>]
      final == DateFilter(df, w.filtered_df, start_date, end_date)
  IN BalanceView(df, w, CHOOSE sorted \in sort_values(df, final) : TRUE)

\* C3: when the date range shown is split at a date boundary, the closing
\* balance of the first part is the opening balance used for the second, so
\* the second part ends on the final balance of the whole range
C3_BalanceAdditivity ==
  Rendered =>
    \A d2 \in widgets.date_range[1]..(widgets.date_range[2] - 1) :
      LET part1 == ViewOver(widgets.date_range[1], d2)
          part2 == ViewOver(d2 + 1, widgets.date_range[2])
      IN /\ part2.saldo_awal = part1.final_balance_value
         /\ part2.final_balance_value = view.balance.final_balance_value

\* C8: a transaction whose amount is missing adds 0: at its row and at every
\* later row the running balance is a number, the opening balance plus the
\* net changes of the rows with a valid amount so far
C8_MissingAmountCountsZero ==
  Rendered =>
    \A k \in 1..Len(Trail) :
      (\E j \in 1..k : IsNA(df[Trail[j]].Amount)) =>
        /\ ~IsNA(view.balance.RunningSaldo[k])
        /\ view.balance.RunningSaldo[k] =
             Some(view.balance.saldo_awal + SpecPrefix(df, Trail, k))

-----------------------------------------------------------------------------
(* Properties of the fetch cache and of the two mutation forms *)

\* the last action was a mutation attempt that failed, in part or in full
FailedMutation ==
  \/ lastOp.kind \in {"insert_errors", "insert_raised"}
  \/ lastOp.kind = "delete" /\ lastOp.failed # <<>>

\* C4: every insert or delete attempt that fails, in part or in full, still
\* clears the fetch cache, so the pass that follows fetches the ledger again
C4_FailedMutationInvalidates ==
  FailedMutation => lastOp.cleared /\ lastOp.fetched

\* C5: the fetch result is memoized and reused until an invalidation: between
\* two invalidations the fetch runs at most once and every pass works on the
\* memoized snapshot; the first pass after an invalidation fetches again
C5_FetchMemoized ==
  /\ [](/\ fetches <= 1
        /\ ~IsNA(cache)
        /\ df = Preprocess(Val(cache))
        /\ lastOp.cleared => lastOp.fetched /\ Val(cache) \in FetchResults(remote))
  /\ [][~lastOp'.cleared => cache' = cache /\ ~lastOp'.fetched]_vars

\* a pass reused the memoized snapshot although the table has changed since
C5_Witness ==
  /\ lastOp.kind = "widget"
  /\ ~lastOp.fetched
  /\ fetches = 1
  /\ Val(cache) # <<>>
  /\ Val(cache) # remote

\* the table without the rows matched by a delete that ran
WithoutDeleted(table, d, success) ==
  SelectSeq(table, LAMBDA raw : \A k \in 1..Len(success) : ~WhereMatches(raw, d[success[k]]))

\* C10: a delete submit with rows selected issues one delete per selected row;
\* a failure neither stops the remaining attempts nor undoes the deletes done,
\* and every selected row ends in exactly one of the success and failed lists
C10_DeletePerRow ==
  /\ [](lastOp.kind = "delete" =>
          /\ lastOp.selected # {}
          /\ Len(lastOp.attempts) = Cardinality(lastOp.selected)
          /\ Range(lastOp.attempts) = lastOp.selected
          /\ Range(lastOp.success) \cup Range(lastOp.failed) = lastOp.selected
          /\ Range(lastOp.success) \cap Range(lastOp.failed) = {}
          /\ Len(lastOp.success) + Len(lastOp.failed) = Cardinality(lastOp.selected))
  /\ [][lastOp'.kind = "delete" =>
          remote' = WithoutDeleted(remote, df, lastOp'.success)]_vars

\* the first selected row failed, the second was still attempted and deleted,
\* and the table has lost it
C10_Witness ==
  /\ lastOp.kind = "delete"
  /\ lastOp.failed = <<1>>
  /\ lastOp.success = <<2>>
  /\ Len(remote) = 1

-----------------------------------------------------------------------------
(* Properties of the cascading filters, the opening balance and the summary *)

\* the index labels of df whose row satisfies the selections of the stages
\* before stage n
Passing(n) ==
  {i \in 1..Len(df) :
     /\ n > 1 => df[i].TransactionType \in widgets.selected_transaction_types
     /\ n > 2 => df[i].ClusterID \in widgets.selected_cluster_ids
     /\ n > 3 => df[i].Sender \in widgets.selected_senders}

\* C7: the stages run in the order type, cluster, sender, name; each stage
\* offers exactly the values of its field in the data left by the selections
\* before it, and two selection states that differ only from some stage on
\* are offered the same options up to that stage
C7_CascadingConsistency ==
  /\ [](SidebarShown(view.status) =>
          /\ widgets.unique_transaction_types =
               {df[i].TransactionType : i \in Passing(1)}
          /\ widgets.unique_cluster_ids = {df[i].ClusterID : i \in Passing(2)}
          /\ widgets.unique_senders = {df[i].Sender : i \in Passing(3)}
          /\ widgets.unique_names = {df[i].Nama : i \in Passing(4)})
  /\ [][(SidebarShown(view.status) /\ SidebarShown(view'.status) /\ df' = df) =>
          /\ widgets'.unique_transaction_types = widgets.unique_transaction_types
          /\ (widgets'.selected_transaction_types = widgets.selected_transaction_types)
               => widgets'.unique_cluster_ids = widgets.unique_cluster_ids
          /\ (/\ widgets'.selected_transaction_types = widgets.selected_transaction_types
              /\ widgets'.selected_cluster_ids = widgets.selected_cluster_ids)
               => widgets'.unique_senders = widgets.unique_senders
          /\ (/\ widgets'.selected_transaction_types = widgets.selected_transaction_types
              /\ widgets'.selected_cluster_ids = widgets.selected_cluster_ids
              /\ widgets'.selected_senders = widgets.selected_senders)
               => widgets'.unique_names = widgets.unique_names]_vars

\* a type is deselected and the cluster stage offers fewer clusters than the
\* data holds, all of them still selected and passed on to the sender stage
C7_Witness ==
  /\ SidebarShown(view.status)
  /\ widgets.selected_transaction_types # widgets.unique_transaction_types
  /\ widgets.unique_cluster_ids # {}
  /\ widgets.unique_cluster_ids # {df[i].ClusterID : i \in 1..Len(df)}
  /\ widgets.unique_senders # {}

\* the sum of f over a finite set
RECURSIVE SumOver(_, _)
SumOver(S, f) ==
  IF S = {} THEN 0
  ELSE LET x == CHOOSE y \in S : TRUE IN f[x] + SumOver(S \ {x}, f)

\* the registry entry of every cluster id, 0 for an id the registry lacks
RegistryEntry(ids) ==
  [c \in ids |-> IF c \in DOMAIN initial_balances_by_cluster
                 THEN initial_balances_by_cluster[c] ELSE 0]

\* the clusters with at least one transaction in the final filtered set
ClustersInTrail == {df[i].ClusterID : i \in Range(Trail)}

\* C9 as claimed: the opening balance that seeds a trail is the sum of the
\* registry entries of exactly the clusters with a transaction in the final
\* filtered set
C9_OpeningOfFilteredClusters ==
  (Rendered /\ Trail # <<>>) =>
    view.balance.saldo_awal = SumOver(ClustersInTrail, RegistryEntry(ClustersInTrail))

\* C9 as amended: the opening balance that seeds the trail is the sum of the
\* registry entries (0 for ids the registry lacks) of exactly the cluster ids
\* selected at the cluster stage, whether or not each still has a transaction
\* after the sender, name and date selections
C9_OpeningOfSelectedClusters ==
  Rendered =>
    /\ view.balance.saldo_awal =
         SumOver(widgets.selected_cluster_ids,
                 RegistryEntry(widgets.selected_cluster_ids))
    /\ (Trail # <<>> /\ ~IsNA(view.balance.NetChange[1])) =>
         view.balance.RunningSaldo[1] =
           Some(SumOver(widgets.selected_cluster_ids,
                        RegistryEntry(widgets.selected_cluster_ids))
                + Val(view.balance.NetChange[1]))

\* a trail over the rows of one cluster, seeded with the registry entry of a
\* selected cluster that has no transaction left in it
C9_Witness ==
  /\ Rendered
  /\ Trail # <<>>
  /\ \E c \in widgets.selected_cluster_ids \ ClustersInTrail :
       c \in DOMAIN initial_balances_by_cluster
  /\ view.balance.saldo_awal > 0

\* the non-missing amounts of the rows of df of one cluster and one type
AmountsOf(cid, type) ==
  LET rows == {i \in 1..Len(df) :
                 /\ df[i].ClusterID = cid
                 /\ df[i].TransactionType = type
                 /\ ~IsNA(df[i].Amount)}
  IN SumOver(rows, [i \in rows |-> Val(df[i].Amount)])

AllClusters == {df[i].ClusterID : i \in 1..Len(df)}

\* the summary row of one cluster over the full data
FullSummaryRow(cid) ==
  LET stamps == {Val(df[i].TransactionDate) :
                   i \in {j \in 1..Len(df) : df[j].ClusterID = cid
                                             /\ ~IsNA(df[j].TransactionDate)}}
  IN [ClusterID |-> cid,
      DataUpdate |-> IF stamps = {} THEN "---" ELSE ToString(SetMax(stamps)),
      TotalKredit |-> FormatThousands(Some(AmountsOf(cid, "Kredit"))),
      TotalDebit |-> FormatThousands(Some(AmountsOf(cid, "Debit"))),
      InitialBalance |-> FormatThousands(Some(RegistryEntry({cid})[cid])),
      RunningBalance |->
        FormatThousands(Some(RegistryEntry({cid})[cid] + AmountsOf(cid, "Kredit")
                             - AmountsOf(cid, "Debit")))]

\* the grand-total row over the full data
FullSummaryTotal ==
  LET kredit == SumOver(AllClusters, [c \in AllClusters |-> AmountsOf(c, "Kredit")])
      debit == SumOver(AllClusters, [c \in AllClusters |-> AmountsOf(c, "Debit")])
      initial == SumOver(AllClusters, RegistryEntry(AllClusters))
  IN [ClusterID |-> "Total", DataUpdate |-> "---",
      TotalKredit |-> FormatThousands(Some(kredit)),
      TotalDebit |-> FormatThousands(Some(debit)),
      InitialBalance |-> FormatThousands(Some(initial)),
      RunningBalance |-> FormatThousands(Some(initial + kredit - debit))]

\* C6: on one snapshot the cluster summary is computed over the full data
\* (per cluster: credit, debit, registry opening, closing = opening + credit
\* - debit, latest timestamp; and the grand total) and is the same for any
\* two filter states; computing the filtered view leaves its data unchanged
C6_AggregationIndependence ==
  /\ [](Rendered =>
          view.summary_df = {FullSummaryRow(c) : c \in AllClusters} \cup {FullSummaryTotal})
  /\ [][(Rendered /\ view'.status = "rendered" /\ df' = df) =>
          view'.summary_df = view.summary_df]_vars

\* a filtered view that leaves out rows of the data, under a summary that
\* still counts more than one cluster
C6_Witness ==
  /\ Rendered
  /\ Len(widgets.filtered_df) < Len(df)
  /\ Cardinality(view.summary_df) > 2
  /\ lastOp.kind = "widget"

\* an arrangement of rows in which rows of equal timestamp stand in the order
\* of their index labels, the order in which the query returned them
TiesInSourceOrder(p) ==
  \A i, j \in 1..Len(p) :
    (i < j /\ df[p[i]].TransactionDate = df[p[j]].TransactionDate) => p[i] < p[j]

\* the running balances obtained by applying the rows in the arrangement p
RunningSaldoOver(p) ==
  RunningSaldo(view.balance.saldo_awal, [k \in 1..Len(p) |-> NetChange(df[p[k]])])

\* C11: in the trail sorted ascending by timestamp, rows with equal timestamps
\* keep their retrieval order relative to each other, and the running balances
\* shown are those of applying tied rows in retrieval order
C11_TiesKeepSourceOrder ==
  Rendered =>
    /\ TiesInSourceOrder(Trail)
    /\ \A p \in sort_values(df, Trail) :
         TiesInSourceOrder(p) => view.balance.RunningSaldo = RunningSaldoOver(p)

====
